---- MODULE Spec2Model ----
(***************************************************************************)
(* PDM to PCM decimator: the cocotb test harnesses (core flavour and Vyges *)
(* flavour) driving the decimator through its signal interface.            *)
(*                                                                         *)
(* The harness is the code of src/tb/cocotb.  The decimator's RTL is not   *)
(* part of the source set: the device is modelled from the behavioural     *)
(* contract of the specification (sections 4.1, 6 and 8).                  *)
(*                                                                         *)
(* Simulation semantics.  The device and the harness are both processes    *)
(* clocked by clock_i.  At a rising edge the device samples the inputs     *)
(* that were driven before the edge; a coroutine resumed by RisingEdge     *)
(* reads the outputs as they were before the edge and its writes take      *)
(* effect after the edge.  Hence, in every action, the harness reads the   *)
(* unprimed dut and the device steps from the unprimed dut.                *)
(* Time is counted in ns; toEdge is the time to the next rising edge.      *)
(***************************************************************************)
EXTENDS Integers, Sequences, FiniteSets, TLC

VARIABLES
    test,     \* the test case being run
    dut,      \* the device: its input, output and internal signals
    tb,       \* the harness coroutine: position and locals
    timer,    \* ns left of the Timer the harness awaits
    toEdge,   \* ns to the next rising edge of clock_i
    hist      \* history of the run (for stating properties)

vars == <<test, dut, tb, timer, toEdge, hist>>

----------------------------------------------------------------------------
(* Configuration                                                           *)

DATA_WIDTH == 16
DECIMATION_RATIO == 16

\* Variant of FIFO_DEPTH: a buffer smaller than the 3 windows of
\* test_backpressure.
FIFO_DEPTH_small == 1 + 1

FIFO_DEPTH == 16
CLOCK_PERIOD_NS == 10
RESET_TIME_NS == 100
SETTLE_TIME_NS == 50
PCM_TIMEOUT == 1000
NUM_BACKPRESSURE_SAMPLES == 3
NUM_CONTINUOUS_CYCLES == 50
NUM_STATE_CYCLES == 10

\* Vyges flavour
PDM_PCM_CONVERTER_TEST_TIMEOUT_NS == 10000
PDM_PCM_CONVERTER_CLOCK_PERIOD_NS == 10
PDM_PCM_CONVERTER_RESET_CYCLES == 10
PDM_PCM_CONVERTER_STABLE_CYCLES == 5
PDM_PCM_CONVERTER_MAX_WAIT_CYCLES == 1000
PDM_PCM_CONVERTER_NUM_PERFORMANCE_SAMPLES == 50
NUM_RESET_CYCLES == 3
READY_AFTER_RESET_CYCLES == 50
NUM_STRESS_CYCLES == 100
MAX_BACKPRESSURE_TIME == 5
NUM_ALTERNATING_WINDOWS == 10
DISABLE_DELAY_CYCLES == 2
DISABLE_CYCLES == 5
RECOVERY_CYCLES == 50

RECURSIVE Pow2(_)
Pow2(n) == IF n = 0 THEN 1 ELSE 2 * Pow2(n - 1)

Abs(x) == IF x < 0 THEN -x ELSE x

\* Variant of max_value: one bit narrower.
max_value_narrow == Pow2(DATA_WIDTH - 2) - 1

\* max_value / min_value as the core tests compute them
max_value == Pow2(DATA_WIDTH - 1) - 1
min_value == -Pow2(DATA_WIDTH - 1)

----------------------------------------------------------------------------
(* The device                                                              *)

\* The output word for a window with `ones` one-bits: the bit density scaled
\* to the signed output range and saturated to it.
PcmWord(ones) ==
    LET raw == ((ones * Pow2(DATA_WIDTH)) \div DECIMATION_RATIO) - Pow2(DATA_WIDTH - 1)
    IN  IF raw > Pow2(DATA_WIDTH - 1) - 1 THEN Pow2(DATA_WIDTH - 1) - 1
        ELSE IF raw < -Pow2(DATA_WIDTH - 1) THEN -Pow2(DATA_WIDTH - 1)
        ELSE raw

\* The registers after a synchronous reset; the inputs are the harness's.
ResetRegs(d) ==
    [d EXCEPT !.bit_count = 0, !.ones_count = 0, !.fifo = <<>>,
              !.pdm_ready_o = 0, !.pcm_valid_o = 0, !.pcm_data_o = 0,
              !.busy_o = 0, !.overflow_o = 0, !.underflow_o = 0]

\* A bit is accepted at an edge where the module is enabled and both sides
\* of the input handshake are high.
Accepts(d) ==
    d.reset_n_i = 1 /\ d.enable_i = 1 /\ d.pdm_valid_i = 1 /\ d.pdm_ready_o = 1

\* The accepted bit completes a window.
Completes(d) == Accepts(d) /\ d.bit_count = DECIMATION_RATIO - 1

\* The internal buffer holds its configured depth.
Full(fifo) == Len(fifo) >= FIFO_DEPTH

\* The consumer reads (pcm_ready_i high) while no word is pending.
Underflow(d) == d.pcm_ready_i = 1 /\ d.fifo = <<>>

\* Variant of Disabled: a disabled module loses its registers.
DisabledClears(d) ==
    [d EXCEPT !.bit_count = 0, !.ones_count = 0, !.fifo = <<>>,
              !.pdm_ready_o = 0, !.pcm_valid_o = 0, !.pcm_data_o = 0,
              !.busy_o = 0, !.overflow_o = 0, !.underflow_o = 0]

\* An edge with enable_i low: the handshake and the flags are withdrawn, the
\* window under way and the buffer are kept.
Disabled(d) == [d EXCEPT !.pdm_ready_o = 0, !.busy_o = 0, !.underflow_o = 0]

\* The devices a test may be run against: the decimator, a device that never
\* asserts pdm_ready_o, and one that takes bits but never asserts pcm_valid_o.
DeviceKinds == {"decimator", "never_ready", "never_valid"}

\* An edge of a device that never asserts pdm_ready_o (nor pcm_valid_o).
NeverReadyEdge(d) == [d EXCEPT !.pdm_ready_o = 0, !.pcm_valid_o = 0]

\* An edge of a device that is ready whenever it is out of reset and enabled
\* but never asserts pcm_valid_o.
NeverValidEdge(d) ==
    [d EXCEPT !.pdm_ready_o = IF d.reset_n_i = 1 /\ d.enable_i = 1 THEN 1 ELSE 0,
              !.pcm_valid_o = 0]

\* One rising edge of clock_i.
DeviceEdge(d) ==
    IF d.kind = "never_ready" THEN NeverReadyEdge(d)
    ELSE IF d.kind = "never_valid" THEN NeverValidEdge(d)
    ELSE IF d.reset_n_i = 0 THEN ResetRegs(d)
    ELSE IF d.enable_i = 0 THEN Disabled(d)
    ELSE
        LET ones   == d.ones_count + (IF Accepts(d) THEN d.pdm_data_i ELSE 0)
            pop    == d.pcm_ready_i = 1 /\ d.fifo # <<>>
            popped == IF pop THEN Tail(d.fifo) ELSE d.fifo
            full   == Full(popped)
            fifo1  == IF Completes(d) /\ ~full
                      THEN Append(popped, PcmWord(ones)) ELSE popped
        IN  [d EXCEPT
               !.bit_count   = IF Completes(d) THEN 0
                               ELSE IF Accepts(d) THEN d.bit_count + 1
                               ELSE d.bit_count,
               !.ones_count  = IF Completes(d) THEN 0 ELSE ones,
               !.fifo        = fifo1,
               !.pdm_ready_o = 1,
               !.busy_o      = 1,
               !.overflow_o  = IF Completes(d) /\ full THEN 1 ELSE d.overflow_o,
               !.underflow_o = IF Underflow(d) THEN 1 ELSE 0,
               !.pcm_valid_o = IF fifo1 # <<>> THEN 1 ELSE 0,
               !.pcm_data_o  = IF fifo1 # <<>> THEN Head(fifo1) ELSE 0]

\* The history kept across an edge.
HistEdge(h, d, dt) ==
    [h EXCEPT
       !.now      = h.now + dt,
       !.windows  = IF d.reset_n_i = 0 THEN 0
                    ELSE IF Completes(d) THEN h.windows + 1 ELSE h.windows,
       !.accepted = IF d.reset_n_i = 0 THEN 0
                    ELSE IF Accepts(d) THEN h.accepted + 1 ELSE h.accepted,
       !.was_reset = h.was_reset \/ d.reset_n_i = 0,
       !.interrupted = /\ d.reset_n_i = 1
                       /\ \/ h.interrupted
                          \/ d.enable_i = 0 /\ d.pdm_valid_i = 1 /\ d.bit_count > 0,
       !.sampled  = [reset_n |-> d.reset_n_i, enable |-> d.enable_i,
                     pcm_ready |-> d.pcm_ready_i, pcm_valid |-> d.pcm_valid_o]]

\* The history kept while time passes without an edge.
HistWait(h, dt) == [h EXCEPT !.now = h.now + dt]

\* The rising edges that fall into the two Timers of vyges_reset_sequence:
\* low_edges sample reset_n_i low, stable_edges sample it high with enable_i
\* still low.
ResetEdge(h, d, pc) ==
    [h EXCEPT !.low_edges = IF pc = "vrst_low" /\ d.reset_n_i = 0 THEN @ + 1 ELSE @,
              !.stable_edges = IF pc = "vrst_stable" /\ d.reset_n_i = 1 /\ d.enable_i = 0
                               THEN @ + 1 ELSE @]

\* A call of vyges_reset_sequence starts the count anew.
SequenceStart(h, pc) ==
    IF pc = "vrst_low" THEN [h EXCEPT !.low_edges = 0, !.stable_edges = 0] ELSE h

\* Registers as a test may find them: after power-up, or as left by the test
\* that ran before it in the same simulation.
CleanRegs ==
    [reset_n_i |-> 1, enable_i |-> 0, pdm_data_i |-> 0, pdm_valid_i |-> 0,
     pcm_ready_i |-> 1,
     bit_count |-> 0, ones_count |-> 0, fifo |-> <<>>,
     pdm_ready_o |-> 0, pcm_valid_o |-> 0, pcm_data_o |-> 0,
     busy_o |-> 0, overflow_o |-> 0, underflow_o |-> 0, kind |-> "decimator"]

LeftOverRegs ==
    [reset_n_i |-> 1, enable_i |-> 1, pdm_data_i |-> 1, pdm_valid_i |-> 0,
     pcm_ready_i |-> 1,
     bit_count |-> 3, ones_count |-> 2, fifo |-> <<PcmWord(5)>>,
     pdm_ready_o |-> 1, pcm_valid_o |-> 1, pcm_data_o |-> PcmWord(5),
     busy_o |-> 1, overflow_o |-> 1, underflow_o |-> 1, kind |-> "decimator"]

----------------------------------------------------------------------------
(* The core harness: test_pdm_pcm_decimator_core.py                        *)

CoreTests ==
    {"test_reset_sequence", "test_all_zeros_pattern", "test_all_ones_pattern",
     "test_alternating_pattern", "test_random_pattern", "test_backpressure",
     "test_overflow_condition", "test_underflow_condition",
     "test_state_machine_coverage", "test_parameter_validation",
     "test_continuous_operation"}

VygesTests ==
    {"vyges_test_reset_functionality", "vyges_test_basic_functionality",
     "vyges_test_performance_throughput", "vyges_test_stress_conditions",
     "vyges_test_corner_cases"}

\* Tests that wait for a PCM word after every window they send.
WaitsPerWindow(t) ==
    t \in {"test_all_zeros_pattern", "test_all_ones_pattern",
           "test_alternating_pattern", "test_random_pattern",
           "test_parameter_validation", "test_continuous_operation"}

\* Variants of EnableAfterReset: every test enables the module; none does.
EnableAlways(t) == 1

EnableNever(t) == 0

\* The value the harness writes to enable_i when it releases reset.
EnableAfterReset(t) == IF t = "test_reset_sequence" THEN 0 ELSE 1

\* Variants of PdmData: every test draws random bits; every test sends ones;
\* every test sends the alternating window.
PdmDataAnyBit(t, i) == {0, 1}

PdmDataAllOnes(t, i) == {1}

PdmDataAlternating(t, i) == {i % 2}

\* The values bit i of a window (pdm_data[i]) can take.
PdmData(t, i) ==
    CASE t = "test_all_zeros_pattern"   -> {0}
      [] t = "test_all_ones_pattern"    -> {1}
      [] t = "test_alternating_pattern" -> {i % 2}
      [] t = "test_overflow_condition"  -> {1}
      [] t = "test_parameter_validation" -> {IF i = DECIMATION_RATIO - 1 THEN 1 ELSE 0}
      [] OTHER                          -> {0, 1}

\* Variant of NumSamples: test_overflow_condition sends FIFO_DEPTH + 1 windows.
NumSamplesDepthPlusOne(t) ==
    CASE t = "test_backpressure"         -> NUM_BACKPRESSURE_SAMPLES
      [] t = "test_overflow_condition"   -> FIFO_DEPTH + 1
      [] t = "test_continuous_operation" -> NUM_CONTINUOUS_CYCLES
      [] t = "test_state_machine_coverage" -> NUM_STATE_CYCLES
      [] OTHER                           -> 1

\* The number of windows a test sends.
NumSamples(t) ==
    CASE t = "test_backpressure"         -> NUM_BACKPRESSURE_SAMPLES
      [] t = "test_overflow_condition"   -> FIFO_DEPTH + 2
      [] t = "test_continuous_operation" -> NUM_CONTINUOUS_CYCLES
      [] t = "test_state_machine_coverage" -> NUM_STATE_CYCLES
      [] OTHER                           -> 1

\* The value of pcm_ready_i while the windows are sent.
ReadyWhileSending(t) ==
    IF t \in {"test_backpressure", "test_overflow_condition"} THEN 0 ELSE 1

\* A test ends: passed, or failed at the named assertion.
Finish(h, ok, name) ==
    [h EXCEPT !.pc = "done",
              !.status = IF ok THEN "passed" ELSE "failed",
              !.failed = IF ok THEN "" ELSE name]

\* BinaryValue.integer: the bits of the word read as an unsigned number,
\* which is what `.value` of a signal handle compares as.
integer(v) == v % Pow2(DATA_WIDTH)

\* The final check on the word read from pcm_data_o.
PcmCheck(t, pcm_value) ==
    CASE t = "test_all_zeros_pattern"   -> integer(pcm_value) = -Pow2(DATA_WIDTH - 1)
      [] t = "test_all_ones_pattern"    -> integer(pcm_value) = Pow2(DATA_WIDTH - 1) - 1
      [] t = "test_alternating_pattern" -> Abs(integer(pcm_value)) <= Pow2(DATA_WIDTH - 3)
      [] t = "test_parameter_validation" -> integer(pcm_value) < 0
      [] OTHER -> min_value <= integer(pcm_value) /\ integer(pcm_value) <= max_value

\* The wait for pcm_valid_o has ended with `tmo` iterations; d is what the
\* harness reads.
AfterPcmWait(t, h, d, tmo) ==
    LET h1 == [h EXCEPT !.timeout = tmo]
    IN  IF t = "test_backpressure" THEN Finish(h1, tmo < PCM_TIMEOUT, "timeout")
        ELSE IF t = "test_continuous_operation" THEN
            LET got == tmo < PCM_TIMEOUT
                h2  == [h1 EXCEPT
                          !.collected = IF got THEN h.collected + 1 ELSE h.collected,
                          !.in_range  = IF got THEN h.in_range /\ PcmCheck(t, d.pcm_data_o)
                                        ELSE h.in_range]
            IN  IF h.sample + 1 < NumSamples(t)
                THEN [h2 EXCEPT !.pc = "send_edge", !.sample = h.sample + 1, !.i = 0]
                ELSE IF h2.collected # NumSamples(t) THEN Finish(h2, FALSE, "count")
                ELSE Finish(h2, h2.in_range, "range")
        ELSE IF ~(tmo < PCM_TIMEOUT) THEN Finish(h1, FALSE, "timeout")
        ELSE Finish([h1 EXCEPT !.pcm_value = d.pcm_data_o, !.collected = 1],
                    PcmCheck(t, d.pcm_data_o), "pcm")

\* Entering the loop `while pcm_valid_o == 0 and timeout < 1000`.
PcmWait(t, h, d, tmo) ==
    IF d.pcm_valid_o = 0 /\ tmo < PCM_TIMEOUT
    THEN [h EXCEPT !.pc = "wait_pcm", !.timeout = tmo]
    ELSE AfterPcmWait(t, h, d, tmo)

\* After `while pdm_ready_o == 0`: the next bit, or the end of the window.
\* test_state_machine_coverage has no await between its windows, and ends
\* with the check of busy_o.
NextBit(t, h, d) ==
    IF h.i + 1 < DECIMATION_RATIO
    THEN [h EXCEPT !.pc = "send_edge", !.i = h.i + 1]
    ELSE IF t # "test_state_machine_coverage" THEN [h EXCEPT !.pc = "end_window"]
    ELSE IF h.sample + 1 < NumSamples(t)
    THEN [h EXCEPT !.pc = "send_edge", !.sample = h.sample + 1, !.i = 0]
    ELSE Finish(h, d.busy_o = 1, "busy")

\* pdm_valid_i after a step of the bit loop: test_state_machine_coverage
\* deasserts it when its loops are over.
ValidAfterBit(h1) == IF h1.pc = "done" THEN 0 ELSE 1

\* The period of the clock a test starts on clock_i: the core tests pass
\* CLOCK_PERIOD_NS to Clock(), the Vyges tests PDM_PCM_CONVERTER_TEST_TIMEOUT_NS.
ClockPeriod(t) ==
    IF t \in CoreTests THEN CLOCK_PERIOD_NS ELSE PDM_PCM_CONVERTER_TEST_TIMEOUT_NS

\* The number of edges one `while pdm_ready_o == 0` loop is followed for: one
\* more than the largest cycle-count timeout of the harness.
MaxReadyWaits == 1001

\* The positions at which the harness awaits a Timer.
TimerPcs ==
    {"reset_low", "reset_settle", "vrst_low", "vrst_stable", "vbp_pulse",
     "vdis_start", "vdis_low"}

\* The harness awaits a Timer and a rising edge comes first (or with it).
TimerEdge ==
    /\ tb.pc \in TimerPcs
    /\ timer >= toEdge
    /\ dut' = DeviceEdge(dut)
    /\ hist' = ResetEdge(HistEdge(hist, dut, toEdge), dut, tb.pc)
    /\ timer' = timer - toEdge
    /\ toEdge' = ClockPeriod(test)
    /\ UNCHANGED <<test, tb>>

\* Timer(100 ns) is over: reset is released.
ReleaseReset ==
    /\ test \in CoreTests
    /\ tb.pc = "reset_low"
    /\ timer < toEdge
    /\ dut' = [dut EXCEPT !.reset_n_i = 1, !.enable_i = EnableAfterReset(test)]
    /\ tb' = [tb EXCEPT !.pc = "reset_settle"]
    /\ timer' = SETTLE_TIME_NS
    /\ toEdge' = toEdge - timer
    /\ hist' = HistWait(hist, timer)
    /\ UNCHANGED test

\* test_reset_sequence: the four assertions on the initial state.
ResetChecks(h, d) ==
    IF d.busy_o # 0 THEN Finish(h, FALSE, "busy")
    ELSE IF d.overflow_o # 0 THEN Finish(h, FALSE, "overflow")
    ELSE IF d.underflow_o # 0 THEN Finish(h, FALSE, "underflow")
    ELSE Finish(h, d.pdm_ready_o = 0, "pdm_ready")

\* Timer(50 ns) is over: the body of the test starts.
AfterSettle ==
    /\ test \in CoreTests
    /\ tb.pc = "reset_settle"
    /\ timer < toEdge
    /\ IF test = "test_reset_sequence"
       THEN /\ tb' = ResetChecks(tb, dut)
            /\ dut' = dut
       ELSE IF test = "test_underflow_condition"
       THEN /\ tb' = [tb EXCEPT !.pc = "uf_wait", !.timeout = 0]
            /\ dut' = [dut EXCEPT !.pcm_ready_i = 1]
       ELSE IF test = "test_state_machine_coverage"
       THEN /\ tb' = [tb EXCEPT !.pc = "sm_disabled"]
            /\ dut' = [dut EXCEPT !.enable_i = 0]
       ELSE /\ tb' = [tb EXCEPT !.pc = "send_edge", !.sample = 0, !.i = 0]
            /\ dut' = [dut EXCEPT !.pcm_ready_i =
                          IF ReadyWhileSending(test) = 0 THEN 0 ELSE dut.pcm_ready_i]
    /\ toEdge' = toEdge - timer
    /\ timer' = 0
    /\ hist' = HistWait(hist, timer)
    /\ UNCHANGED test

\* test_state_machine_coverage: the edge with enable_i low, then enable_i
\* and pdm_valid_i are raised.
StateMachineEnable ==
    /\ tb.pc = "sm_disabled"
    /\ dut' = [DeviceEdge(dut) EXCEPT !.enable_i = 1, !.pdm_valid_i = 1]
    /\ hist' = HistEdge(hist, dut, toEdge)
    /\ tb' = [tb EXCEPT !.pc = "send_edge", !.sample = 0, !.i = 0]
    /\ toEdge' = ClockPeriod(test)
    /\ UNCHANGED <<test, timer>>

\* `await RisingEdge` at the top of the bit loop, then the bit is driven.
SendBit ==
    /\ test \in CoreTests
    /\ tb.pc = "send_edge"
    /\ tb' = IF dut.pdm_ready_o = 0 THEN [tb EXCEPT !.pc = "wait_ready"]
             ELSE NextBit(test, tb, dut)
    /\ \E bit \in PdmData(test, tb.i) :
          dut' = [DeviceEdge(dut) EXCEPT !.pdm_data_i = bit,
                                         !.pdm_valid_i = ValidAfterBit(tb')]
    /\ hist' = HistEdge(hist, dut, toEdge)
    /\ toEdge' = ClockPeriod(test)
    /\ UNCHANGED <<test, timer>>

\* `await RisingEdge` inside `while pdm_ready_o == 0`.
WaitReady ==
    /\ test \in CoreTests
    /\ tb.pc = "wait_ready"
    /\ hist.ready_waits < MaxReadyWaits
    /\ tb' = IF dut.pdm_ready_o = 0 THEN tb ELSE NextBit(test, tb, dut)
    /\ dut' = [DeviceEdge(dut) EXCEPT !.pdm_valid_i = ValidAfterBit(tb')]
    /\ hist' = [HistEdge(hist, dut, toEdge) EXCEPT
                  !.ready_waits = IF dut.pdm_ready_o = 0 THEN @ + 1 ELSE 0]
    /\ toEdge' = ClockPeriod(test)
    /\ UNCHANGED <<test, timer>>

\* After the last window of test_backpressure / test_overflow_condition.
AfterAllWindows(t, h, d) ==
    IF t = "test_overflow_condition"
    THEN Finish(h, d.overflow_o = 1, "overflow")
    ELSE IF d.overflow_o # 0 THEN Finish(h, FALSE, "overflow")
    ELSE PcmWait(t, h, d, 0)

\* `await RisingEdge` after the bit loop, then pdm_valid_i is deasserted.
EndWindow ==
    /\ test \in CoreTests
    /\ tb.pc = "end_window"
    /\ hist' = HistEdge(hist, dut, toEdge)
    /\ LET d1 == [DeviceEdge(dut) EXCEPT !.pdm_valid_i = 0]
       IN  IF WaitsPerWindow(test)
           THEN /\ tb' = PcmWait(test, tb, dut, 0)
                /\ dut' = d1
           ELSE IF tb.sample + 1 < NumSamples(test)
           THEN /\ tb' = [tb EXCEPT !.pc = "send_edge", !.sample = tb.sample + 1, !.i = 0]
                /\ dut' = d1
           ELSE /\ tb' = AfterAllWindows(test, tb, dut)
                /\ dut' = IF test = "test_backpressure" /\ dut.overflow_o # 0
                          THEN d1 ELSE [d1 EXCEPT !.pcm_ready_i = 1]
    /\ toEdge' = ClockPeriod(test)
    /\ UNCHANGED <<test, timer>>

\* `await RisingEdge` inside `while pcm_valid_o == 0 and timeout < 1000`.
WaitPcm ==
    /\ test \in CoreTests
    /\ tb.pc = "wait_pcm"
    /\ dut' = DeviceEdge(dut)
    /\ hist' = HistEdge(hist, dut, toEdge)
    /\ tb' = PcmWait(test, tb, dut, tb.timeout + 1)
    /\ toEdge' = ClockPeriod(test)
    /\ UNCHANGED <<test, timer>>

\* test_underflow_condition: `await RisingEdge` in the loop that waits for
\* the FIFO to be empty.
UnderflowWait ==
    /\ tb.pc = "uf_wait"
    /\ dut' = DeviceEdge(dut)
    /\ hist' = HistEdge(hist, dut, toEdge)
    /\ tb' = IF dut.pcm_valid_o = 0 \/ ~(tb.timeout + 1 < PCM_TIMEOUT)
             THEN [tb EXCEPT !.pc = "uf_read"]
             ELSE [tb EXCEPT !.timeout = tb.timeout + 1]
    /\ toEdge' = ClockPeriod(test)
    /\ UNCHANGED <<test, timer>>

\* test_underflow_condition: the read attempt and the check of the flag.
UnderflowRead ==
    /\ tb.pc = "uf_read"
    /\ dut' = DeviceEdge(dut)
    /\ hist' = HistEdge(hist, dut, toEdge)
    /\ tb' = Finish(tb, dut.underflow_o = 1, "underflow")
    /\ toEdge' = ClockPeriod(test)
    /\ UNCHANGED <<test, timer>>

----------------------------------------------------------------------------
(* The Vyges harness: test_pdm_pcm_decimator_vyges.py                      *)

\* The signals of the device (specification, section 6), under the names the
\* core tests use.
DeviceSignals ==
    {"clock_i", "reset_n_i", "enable_i", "pdm_data_i", "pdm_valid_i",
     "pdm_ready_o", "pcm_data_o", "pcm_valid_o", "pcm_ready_i",
     "busy_o", "overflow_o", "underflow_o"}

\* The name under which vyges_test_stress_conditions reads the overflow flag.
StressOverflowSignal == "fifo_overflow_o"

\* What the coroutine does from a resumption to its next await: its new
\* state h, its writes w to the inputs, and the Timer t it awaits (0: none).
Seg(h, w, t) == [h |-> h, w |-> w, t |-> t]

NoWrites == [x \in {} |-> 0]

\* The inputs after the writes w.
Drive(d, w) ==
    [d EXCEPT
       !.reset_n_i   = IF "reset_n_i" \in DOMAIN w THEN w.reset_n_i ELSE @,
       !.enable_i    = IF "enable_i" \in DOMAIN w THEN w.enable_i ELSE @,
       !.pdm_data_i  = IF "pdm_data_i" \in DOMAIN w THEN w.pdm_data_i ELSE @,
       !.pdm_valid_i = IF "pdm_valid_i" \in DOMAIN w THEN w.pdm_valid_i ELSE @,
       !.pcm_ready_i = IF "pcm_ready_i" \in DOMAIN w THEN w.pcm_ready_i ELSE @]

\* Variant of TruncDiv: the quotient is rounded down.
FloorDiv(a, b) == a \div b

\* int(x) of Python for x = a / b, b > 0: truncation towards zero.
TruncDiv(a, b) == IF a >= 0 THEN a \div b ELSE -((-a) \div b)

\* int((ones/len - 0.5) * 2 ** (DATA_WIDTH - 1))
vyges_calculate_expected_pcm(ones, len) ==
    TruncDiv((2 * ones - len) * Pow2(DATA_WIDTH - 1), 2 * len)

\* The comparison of the Vyges tests: |actual - expected| <= 2 ** (DATA_WIDTH - 8)
PcmMatch(actual_pcm, expected_pcm) ==
    Abs(actual_pcm - expected_pcm) <= Pow2(DATA_WIDTH - 8)

\* Variant of log_vyges_assertion: a record whose condition is False is also
\* counted as a failed test.
log_vyges_assertion_counted(h, assertion_name, condition) ==
    [h EXCEPT !.n_assert = @ + 1,
              !.failed_assertions = IF condition THEN @ ELSE @ \cup {assertion_name},
              !.test_count = IF condition THEN @ ELSE @ + 1,
              !.fail_count = IF condition THEN @ ELSE @ + 1]

\* log_vyges_assertion: one more record in test_results['assertions'].
\* failed_assertions keeps the names of the records whose condition is False.
log_vyges_assertion(h, assertion_name, condition) ==
    [h EXCEPT !.n_assert = @ + 1,
              !.failed_assertions = IF condition THEN @ ELSE @ \cup {assertion_name}]

\* f"ready_after_reset_{i+1}" for reset cycle k = i + 1.
ReadyAssertionName(k) ==
    CASE k = 1 -> "ready_after_reset_1"
      [] k = 2 -> "ready_after_reset_2"
      [] OTHER -> "ready_after_reset_3"

\* Variant of EnableModule: the reset sequence leaves enable_i low.
EnableModuleOff == [enable_i |-> 0, pcm_ready_i |-> 1]

\* The writes that end vyges_reset_sequence.
EnableModule == [enable_i |-> 1, pcm_ready_i |-> 1]

\* vyges_log_test_result: the three counters.
vyges_log_test_result(h, passed) ==
    [h EXCEPT !.test_count = @ + 1,
              !.pass_count = IF passed THEN @ + 1 ELSE @,
              !.fail_count = IF passed THEN @ ELSE @ + 1]

\* teardown_test and vyges_print_test_summary: the test returns.
VygesFinish(h) == Seg([h EXCEPT !.pc = "done", !.status = "passed"], NoWrites, 0)

\* An exception leaves the test.
VygesError(h, name) ==
    Seg([h EXCEPT !.pc = "done", !.status = "error", !.failed = name], NoWrites, 0)

\* TestScenarios.get_basic_scenarios: the number of scenarios.
NUM_BASIC_SCENARIOS == 5

\* Bit i of 'pdm_data' of basic scenario k (k = 0 .. 4): all zeros, all ones,
\* alternating, a quarter of ones, three quarters of ones.
BasicBit(k, i) ==
    CASE k = 0 -> 0
      [] k = 1 -> 1
      [] k = 2 -> i % 2
      [] k = 3 -> IF i < DECIMATION_RATIO \div 4 THEN 1 ELSE 0
      [] OTHER -> IF i < (3 * DECIMATION_RATIO) \div 4 THEN 1 ELSE 0

\* f"data_transmission_{scenario_name}"
DataTransmissionName(k) ==
    CASE k = 0 -> "data_transmission_pdm_pcm_converter_all_zeros"
      [] k = 1 -> "data_transmission_pdm_pcm_converter_all_ones"
      [] k = 2 -> "data_transmission_pdm_pcm_converter_alternating"
      [] k = 3 -> "data_transmission_pdm_pcm_converter_quarter_ones"
      [] OTHER -> "data_transmission_pdm_pcm_converter_three_quarter_ones"

\* f"pcm_output_{scenario_name}"
PcmOutputName(k) ==
    CASE k = 0 -> "pcm_output_pdm_pcm_converter_all_zeros"
      [] k = 1 -> "pcm_output_pdm_pcm_converter_all_ones"
      [] k = 2 -> "pcm_output_pdm_pcm_converter_alternating"
      [] k = 3 -> "pcm_output_pdm_pcm_converter_quarter_ones"
      [] OTHER -> "pcm_output_pdm_pcm_converter_three_quarter_ones"

\* The number of bits a Vyges test passes to one vyges_send_pdm_data.
DataLen(t) ==
    IF t = "vyges_test_performance_throughput"
    THEN PDM_PCM_CONVERTER_NUM_PERFORMANCE_SAMPLES * DECIMATION_RATIO
    ELSE DECIMATION_RATIO

\* vyges_test_corner_cases: tb.sample is the number of the corner case.
\* The length of the list passed to the vyges_send_pdm_data under way.
SendLen(t, h) ==
    IF t # "vyges_test_corner_cases" THEN DataLen(t)
    ELSE IF h.sample = 1 THEN 0
    ELSE IF h.sample = 2 THEN 1
    ELSE DECIMATION_RATIO * NUM_ALTERNATING_WINDOWS

\* Bit i of that list: [1] and [i % 2 ...] in the corner cases, a random bit
\* (c.bit) elsewhere.
VygesBit(t, h, i, c) ==
    IF t = "vyges_test_basic_functionality" THEN BasicBit(h.sample, i)
    ELSE IF t # "vyges_test_corner_cases" THEN c.bit
    ELSE IF h.sample = 2 THEN 1
    ELSE i % 2

\* Tests that compute the expected word from the bits they sent.
UsesExpected(t) ==
    t \in {"vyges_test_stress_conditions", "vyges_test_basic_functionality"}

\* vyges_reset_sequence up to its first Timer.
vyges_reset_sequence(h) ==
    Seg([h EXCEPT !.pc = "vrst_low"], [reset_n_i |-> 0, enable_i |-> 0],
        PDM_PCM_CONVERTER_CLOCK_PERIOD_NS * PDM_PCM_CONVERTER_RESET_CYCLES)

\* vyges_send_pdm_data, bit i: the bit is driven, then vyges_wait_for_ready
\* up to its first await.
SendBitV(t, h, d, i, bit) ==
    LET h1 == [h EXCEPT !.i = i, !.timeout = 0,
                        !.ones = IF ~UsesExpected(t) THEN 0
                                 ELSE IF i = 0 THEN bit ELSE @ + bit]
    IN  Seg([h1 EXCEPT !.pc = IF d.pdm_ready_o = 0 /\ 0 < PDM_PCM_CONVERTER_MAX_WAIT_CYCLES
                              THEN "vsend_wait" ELSE "vsend_edge"],
            [pdm_data_i |-> bit, pdm_valid_i |-> 1], 0)

\* The throughput check and the count check that end the throughput test.
ThroughputEnd(h, now) ==
    LET duration_ns == now - h.start_time
        ok == IF duration_ns > 0 THEN h.collected * 1000000000 >= duration_ns
              ELSE FALSE
        h1 == log_vyges_assertion(h, "performance_throughput", ok)
    IN  VygesFinish(vyges_log_test_result(
            h1, h.collected = PDM_PCM_CONVERTER_NUM_PERFORMANCE_SAMPLES))

\* Corner case 4 up to its first Timer: a bit is offered, then the module is
\* to be disabled.
DisableStart(h, c) ==
    Seg([h EXCEPT !.sample = 4, !.pc = "vdis_start"],
        [pdm_data_i |-> c.bit, pdm_valid_i |-> 1],
        PDM_PCM_CONVERTER_CLOCK_PERIOD_NS * DISABLE_DELAY_CYCLES)

\* Corner case 4: the loop that waits for pdm_ready_o with cyc iterations
\* done, then the logged assertion and the end of the test.
RecoveryLoop(h, d, cyc) ==
    IF d.pdm_ready_o = 0 /\ cyc < RECOVERY_CYCLES
    THEN Seg([h EXCEPT !.pc = "vready_wait", !.timeout = cyc], NoWrites, 0)
    ELSE VygesFinish(log_vyges_assertion([h EXCEPT !.timeout = cyc],
                                         "disable_recovery", d.pdm_ready_o = 1))

\* The top of the loop of the basic functionality test, scenario k.
BasicScenario(t, h, d, k) ==
    IF k >= NUM_BASIC_SCENARIOS THEN VygesFinish(h)
    ELSE SendBitV(t, [h EXCEPT !.sample = k], d, 0, BasicBit(k, 0))

\* The top of the loop of the stress test, cycle k.
StressCycle(t, h, d, k, c) ==
    IF k >= NUM_STRESS_CYCLES THEN VygesFinish(h)
    ELSE IF c.bp
    THEN Seg([h EXCEPT !.sample = k, !.pc = "vbp_pulse"], [pcm_ready_i |-> 0],
             PDM_PCM_CONVERTER_CLOCK_PERIOD_NS * c.dur)
    ELSE SendBitV(t, [h EXCEPT !.sample = k], d, 0, c.bit)

\* vyges_wait_for_pcm_output has returned ok.
PcmReturned(t, h, d, ok, c) ==
    IF t = "vyges_test_performance_throughput"
    THEN IF ok THEN Seg([h EXCEPT !.collected = @ + 1, !.pc = "vcount_edge"], NoWrites, 0)
         ELSE ThroughputEnd(h, c.now)
    ELSE IF t = "vyges_test_corner_cases"
    THEN IF ok
         THEN DisableStart(
                  vyges_log_test_result(
                      h, PcmMatch(integer(d.pcm_data_o),
                                  vyges_calculate_expected_pcm(DECIMATION_RATIO \div 2,
                                                               DECIMATION_RATIO))), c)
         ELSE DisableStart(h, c)
    ELSE IF t = "vyges_test_basic_functionality"
    THEN LET h1 == log_vyges_assertion(h, PcmOutputName(h.sample), ok)
             h2 == [h1 EXCEPT !.pcm_value = d.pcm_data_o]
         IN  IF ok
             THEN BasicScenario(
                      t, vyges_log_test_result(
                             h2, PcmMatch(integer(d.pcm_data_o),
                                          vyges_calculate_expected_pcm(h.ones, DataLen(t)))),
                      d, h.sample + 1)
             ELSE BasicScenario(t, h1, d, h.sample + 1)
    ELSE IF ~ok THEN StressCycle(t, h, d, h.sample + 1, c)
    ELSE IF StressOverflowSignal \notin DeviceSignals
    THEN VygesError(h, StressOverflowSignal)
    ELSE LET h1 == log_vyges_assertion(h, "no_overflow_cycle", d.overflow_o = 0)
             h2 == vyges_log_test_result(
                       h1, PcmMatch(integer(d.pcm_data_o),
                                    vyges_calculate_expected_pcm(h.ones, DataLen(t))))
         IN  StressCycle(t, h2, d, h.sample + 1, c)

\* vyges_wait_for_pcm_output with cyc iterations done.
WaitPcmV(t, h, d, cyc, c) ==
    IF d.pcm_valid_o = 0 /\ cyc < PDM_PCM_CONVERTER_MAX_WAIT_CYCLES
    THEN Seg([h EXCEPT !.pc = "vpcm_wait", !.timeout = cyc], NoWrites, 0)
    ELSE PcmReturned(t, h, d, ~(cyc >= PDM_PCM_CONVERTER_MAX_WAIT_CYCLES), c)

\* Variant of SendStart: an empty list is treated as a list of one bit.
SendStartOffersBit(t, h, d, k, c) ==
    LET h1 == [h EXCEPT !.sample = k]
    IN  IF SendLen(t, h1) = 0
        THEN Seg([h1 EXCEPT !.pc = "vsend_ret"], [pdm_data_i |-> 0, pdm_valid_i |-> 1], 0)
        ELSE SendBitV(t, h1, d, 0, VygesBit(t, h1, 0, c))

\* vyges_send_pdm_data is called with the list of corner case k: with an
\* empty list the loop is not entered, pdm_valid_i is written 0 and the
\* function is at its `return True` (pc "vsend_ret").
SendStart(t, h, d, k, c) ==
    LET h1 == [h EXCEPT !.sample = k]
    IN  IF SendLen(t, h1) = 0
        THEN Seg([h1 EXCEPT !.pc = "vsend_ret"], [pdm_valid_i |-> 0], 0)
        ELSE SendBitV(t, h1, d, 0, VygesBit(t, h1, 0, c))

\* pdm_valid_i as vyges_send_pdm_data leaves it when it returns.
ValidAtReturn(h, v) == [h EXCEPT !.valid_at_return = v]

RECURSIVE SendReturned(_, _, _, _, _)

\* vyges_send_pdm_data has returned success.
SendReturned(t, h, d, success, c) ==
    IF t = "vyges_test_corner_cases"
    THEN IF h.sample = 1
         THEN SendStart(t, log_vyges_assertion(h, "empty_data_handling", success),
                        d, 2, c)
         ELSE IF h.sample = 2
         THEN SendStart(t, log_vyges_assertion(h, "single_bit_handling", success),
                        d, 3, c)
         ELSE IF success THEN WaitPcmV(t, h, d, 0, c)
         ELSE DisableStart(h, c)
    ELSE IF t = "vyges_test_performance_throughput"
    THEN LET h1 == log_vyges_assertion(h, "performance_data_transmission", success)
         IN  IF success THEN WaitPcmV(t, [h1 EXCEPT !.collected = 0], d, 0, c)
             ELSE VygesFinish(h1)
    ELSE IF t = "vyges_test_basic_functionality"
    THEN LET h1 == log_vyges_assertion(h, DataTransmissionName(h.sample), success)
         IN  IF success THEN WaitPcmV(t, h1, d, 0, c)
             ELSE BasicScenario(t, h1, d, h.sample + 1)
    ELSE IF success THEN WaitPcmV(t, h, d, 0, c)
    ELSE StressCycle(t, h, d, h.sample + 1, c)

\* vyges_test_reset_functionality: the loop that waits for pdm_ready_o, with
\* cyc iterations done, then the logged assertion and the next reset cycle.
ReadyLoop(h, d, cyc) ==
    IF d.pdm_ready_o = 0 /\ cyc < READY_AFTER_RESET_CYCLES
    THEN Seg([h EXCEPT !.pc = "vready_wait", !.timeout = cyc], NoWrites, 0)
    ELSE LET h1 == log_vyges_assertion([h EXCEPT !.timeout = cyc],
                                       ReadyAssertionName(h.sample), d.pdm_ready_o = 1)
         IN  IF h.sample < NUM_RESET_CYCLES
             THEN vyges_reset_sequence([h1 EXCEPT !.sample = @ + 1])
             ELSE VygesFinish(h1)

\* vyges_reset_sequence has returned: the body of the test goes on.
AfterResetV(t, h, d, c) ==
    IF t = "vyges_test_reset_functionality"
    THEN IF h.sample = 0
         THEN vyges_reset_sequence(
                  [log_vyges_assertion(log_vyges_assertion(log_vyges_assertion(
                       h, "reset_deasserted", d.reset_n_i = 1),
                       "enable_asserted", d.enable_i = 1),
                       "pcm_ready_asserted", d.pcm_ready_i = 1)
                   EXCEPT !.sample = 1])
         ELSE ReadyLoop(h, d, 0)
    ELSE IF t = "vyges_test_performance_throughput"
    THEN SendBitV(t, [h EXCEPT !.start_time = c.now], d, 0, c.bit)
    ELSE IF t = "vyges_test_corner_cases"
    THEN SendStart(t, h, d, 1, c)
    ELSE IF t = "vyges_test_basic_functionality"
    THEN BasicScenario(t, h, d, 0)
    ELSE StressCycle(t, h, d, 0, c)

\* What a resumption may draw: a random bit, whether the stress test applies
\* backpressure, and for how long; now is the time of the resumption.
Draws(now) ==
    [bit : {0, 1}, bp : BOOLEAN, dur : 1..MAX_BACKPRESSURE_TIME, now : {now}]

\* Timer(clock_period * RESET_CYCLES) is over: reset is released.
VygesReleaseReset ==
    /\ tb.pc = "vrst_low"
    /\ timer < toEdge
    /\ dut' = [dut EXCEPT !.reset_n_i = 1]
    /\ tb' = [tb EXCEPT !.pc = "vrst_stable"]
    /\ timer' = PDM_PCM_CONVERTER_CLOCK_PERIOD_NS * PDM_PCM_CONVERTER_STABLE_CYCLES
    /\ toEdge' = toEdge - timer
    /\ hist' = HistWait(hist, timer)
    /\ UNCHANGED test

\* Timer(clock_period * STABLE_CYCLES) is over: enable_i and pcm_ready_i are
\* raised and vyges_reset_sequence returns.
VygesAfterReset ==
    /\ tb.pc = "vrst_stable"
    /\ timer < toEdge
    /\ \E c \in Draws(hist.now + timer) :
          LET s == AfterResetV(test, tb, dut, c)
          IN  /\ dut' = Drive(dut, s.w @@ EnableModule)
              /\ tb' = s.h
              /\ timer' = s.t
              /\ hist' = SequenceStart(HistWait(hist, timer), s.h.pc)
    /\ toEdge' = toEdge - timer
    /\ UNCHANGED test

\* The backpressure pulse of the stress test is over.
VygesAfterPulse ==
    /\ tb.pc = "vbp_pulse"
    /\ timer < toEdge
    /\ \E bit \in {0, 1} :
          LET s == SendBitV(test, tb, dut, 0, bit)
          IN  /\ dut' = Drive(dut, s.w @@ [pcm_ready_i |-> 1])
              /\ tb' = s.h
              /\ timer' = s.t
    /\ toEdge' = toEdge - timer
    /\ hist' = HistWait(hist, timer)
    /\ UNCHANGED test

\* vyges_send_pdm_data returns True for the empty list; the caller goes on
\* in the same time step.
VygesSendReturn ==
    /\ tb.pc = "vsend_ret"
    /\ \E c \in Draws(hist.now) :
          LET s == SendReturned(test, ValidAtReturn(tb, dut.pdm_valid_i), dut, TRUE, c)
          IN  /\ dut' = Drive(dut, s.w)
              /\ tb' = s.h
              /\ timer' = s.t
    /\ UNCHANGED <<test, toEdge, hist>>

\* Corner case 4: Timer(clock_period * 2) is over, enable_i is lowered.
VygesDisable ==
    /\ tb.pc = "vdis_start"
    /\ timer < toEdge
    /\ dut' = [dut EXCEPT !.enable_i = 0]
    /\ tb' = [tb EXCEPT !.pc = "vdis_low"]
    /\ timer' = PDM_PCM_CONVERTER_CLOCK_PERIOD_NS * DISABLE_CYCLES
    /\ toEdge' = toEdge - timer
    /\ hist' = HistWait(hist, timer)
    /\ UNCHANGED test

\* Corner case 4: Timer(clock_period * 5) is over, enable_i is raised and
\* the wait for pdm_ready_o starts.
VygesReenable ==
    /\ tb.pc = "vdis_low"
    /\ timer < toEdge
    /\ LET s == RecoveryLoop(tb, dut, 0)
       IN  /\ dut' = Drive(dut, s.w @@ [enable_i |-> 1])
           /\ tb' = s.h
           /\ timer' = s.t
    /\ toEdge' = toEdge - timer
    /\ hist' = HistWait(hist, timer)
    /\ UNCHANGED test

\* A rising edge resumes the coroutine, which runs segment s.
VygesResume(s) ==
    /\ dut' = Drive(DeviceEdge(dut), s.w)
    /\ tb' = s.h
    /\ timer' = s.t
    /\ toEdge' = ClockPeriod(test)
    /\ hist' = SequenceStart(HistEdge(hist, dut, toEdge), s.h.pc)
    /\ UNCHANGED test

\* `await RisingEdge` in the loop of vyges_test_reset_functionality, and in
\* the loop of corner case 4.
VygesReadyWait ==
    /\ tb.pc = "vready_wait"
    /\ VygesResume(IF test = "vyges_test_corner_cases"
                   THEN RecoveryLoop(tb, dut, tb.timeout + 1)
                   ELSE ReadyLoop(tb, dut, tb.timeout + 1))

\* `await RisingEdge` in vyges_wait_for_ready, called by vyges_send_pdm_data.
VygesSendWait ==
    /\ tb.pc = "vsend_wait"
    /\ \E c \in Draws(hist.now + toEdge) :
          LET cycles == tb.timeout + 1
          IN  VygesResume(
                IF dut.pdm_ready_o = 0 /\ cycles < PDM_PCM_CONVERTER_MAX_WAIT_CYCLES
                THEN Seg([tb EXCEPT !.timeout = cycles], NoWrites, 0)
                ELSE IF cycles >= PDM_PCM_CONVERTER_MAX_WAIT_CYCLES
                THEN SendReturned(test, ValidAtReturn([tb EXCEPT !.timeout = cycles],
                                                      dut.pdm_valid_i),
                                  dut, FALSE, c)
                ELSE Seg([tb EXCEPT !.timeout = cycles, !.pc = "vsend_edge"], NoWrites, 0))

\* `await RisingEdge` of vyges_send_pdm_data: the bit is taken, the next one
\* follows, or pdm_valid_i is deasserted and the function returns True.
VygesSendEdge ==
    /\ tb.pc = "vsend_edge"
    /\ \E c \in Draws(hist.now + toEdge) :
          VygesResume(
            IF tb.i + 1 < SendLen(test, tb)
            THEN SendBitV(test, tb, dut, tb.i + 1, VygesBit(test, tb, tb.i + 1, c))
            ELSE LET last == [pdm_valid_i |-> 0]
                     s == SendReturned(test, ValidAtReturn(tb, last.pdm_valid_i),
                                       dut, TRUE, c)
                 IN  Seg(s.h, s.w @@ last, s.t))

\* `await RisingEdge` in vyges_wait_for_pcm_output.
VygesPcmWait ==
    /\ tb.pc = "vpcm_wait"
    /\ \E c \in Draws(hist.now + toEdge) :
          VygesResume(WaitPcmV(test, tb, dut, tb.timeout + 1, c))

\* `await RisingEdge` after a counted PCM word (throughput test).
VygesCountEdge ==
    /\ tb.pc = "vcount_edge"
    /\ \E c \in Draws(hist.now + toEdge) :
          VygesResume(
            IF tb.collected < PDM_PCM_CONVERTER_NUM_PERFORMANCE_SAMPLES
            THEN WaitPcmV(test, tb, dut, 0, c)
            ELSE ThroughputEnd(tb, c.now))

----------------------------------------------------------------------------

InitTb ==
    [pc |-> "reset_low", sample |-> 0, i |-> 0, timeout |-> 0, collected |-> 0,
     pcm_value |-> 0, in_range |-> TRUE, status |-> "running", failed |-> "",
     ones |-> 0, n_assert |-> 0, failed_assertions |-> {},
     test_count |-> 0, pass_count |-> 0, fail_count |-> 0, start_time |-> 0,
     valid_at_return |-> -1]

InitHist ==
    [now |-> 0, windows |-> 0, accepted |-> 0, was_reset |-> FALSE,
     interrupted |-> FALSE, ready_waits |-> 0, low_edges |-> 0, stable_edges |-> 0,
     sampled |-> [reset_n |-> 0, enable |-> 0, pcm_ready |-> 0, pcm_valid |-> 0]]

\* Variant of CoreStart: the test leaves reset_n_i as it finds it.
CoreStartNoReset(t, d) ==
    IF t = "test_reset_sequence"
    THEN [d EXCEPT !.enable_i = 0, !.pdm_data_i = 0,
                   !.pdm_valid_i = 0, !.pcm_ready_i = 1]
    ELSE d

\* The first statements of a core test, up to its first await.
CoreStart(t, d) ==
    IF t = "test_reset_sequence"
    THEN [d EXCEPT !.reset_n_i = 0, !.enable_i = 0, !.pdm_data_i = 0,
                   !.pdm_valid_i = 0, !.pcm_ready_i = 1]
    ELSE [d EXCEPT !.reset_n_i = 0]

\* The first statements of a Vyges test, up to its first await.
VygesStart == vyges_reset_sequence(InitTb)

\* A test starts in front of the first rising edge: Clock starts high, and
\* its first write to clock_i is applied together with the test's first
\* writes, when the test reaches its first Timer.
Init ==
    /\ test \in CoreTests \cup VygesTests
    /\ \E regs \in {CleanRegs, LeftOverRegs} :
          dut = IF test \in CoreTests THEN CoreStart(test, regs)
                ELSE Drive(regs, VygesStart.w)
    /\ tb = IF test \in CoreTests THEN InitTb ELSE VygesStart.h
    /\ timer = IF test \in CoreTests THEN RESET_TIME_NS ELSE VygesStart.t
    /\ toEdge = 0
    /\ hist = InitHist

Next ==
    \/ TimerEdge
    \/ ReleaseReset
    \/ AfterSettle
    \/ StateMachineEnable
    \/ SendBit
    \/ WaitReady
    \/ EndWindow
    \/ WaitPcm
    \/ UnderflowWait
    \/ UnderflowRead
    \/ VygesReleaseReset
    \/ VygesAfterReset
    \/ VygesAfterPulse
    \/ VygesSendReturn
    \/ VygesDisable
    \/ VygesReenable
    \/ VygesReadyWait
    \/ VygesSendWait
    \/ VygesSendEdge
    \/ VygesPcmWait
    \/ VygesCountEdge

Spec == Init /\ [][Next]_vars

----------------------------------------------------------------------------
(* The tests against a device that does not answer.                        *)

\* The tests followed against such a device: all but the one that only
\* repeats the timed-out waits of vyges_send_pdm_data a hundred times over.
SilentTests == CoreTests \cup (VygesTests \ {"vyges_test_stress_conditions"})

InitSilent ==
    /\ test \in SilentTests
    /\ \E regs \in {CleanRegs, LeftOverRegs} :
      \E k \in DeviceKinds \ {"decimator"} :
          LET s == [NeverReadyEdge(regs) EXCEPT !.kind = k]
          IN  dut = IF test \in CoreTests THEN CoreStart(test, s)
                    ELSE Drive(s, VygesStart.w)
    /\ tb = IF test \in CoreTests THEN InitTb ELSE VygesStart.h
    /\ timer = IF test \in CoreTests THEN RESET_TIME_NS ELSE VygesStart.t
    /\ toEdge = 0
    /\ hist = InitHist

\* The steps of those tests: they never get to the back-pressure pulse nor
\* to a counted output.
NextSilent ==
    \/ TimerEdge
    \/ ReleaseReset
    \/ AfterSettle
    \/ StateMachineEnable
    \/ SendBit
    \/ WaitReady
    \/ EndWindow
    \/ WaitPcm
    \/ UnderflowWait
    \/ UnderflowRead
    \/ VygesReleaseReset
    \/ VygesAfterReset
    \/ VygesSendReturn
    \/ VygesDisable
    \/ VygesReenable
    \/ VygesReadyWait
    \/ VygesSendWait
    \/ VygesSendEdge
    \/ VygesPcmWait

SilentSpec == InitSilent /\ [][NextSilent]_vars

----------------------------------------------------------------------------
(* The device under any driver: every edge samples inputs the driver is    *)
(* free to choose, with pcm_ready_i high.                                  *)

\* The number of windows a run of the device alone is followed for.
MaxWindows == 2

InitDevice ==
    /\ test = "device"
    /\ \E regs \in {CleanRegs, LeftOverRegs} : dut = [regs EXCEPT !.reset_n_i = 0]
    /\ tb = [InitTb EXCEPT !.pc = "device"]
    /\ timer = 0
    /\ toEdge = 0
    /\ hist = InitHist

\* A rising edge, after which the driver sets enable_i, pdm_valid_i and
\* pdm_data_i as it likes.
DeviceStep ==
    /\ test = "device"
    /\ hist.windows < MaxWindows
    /\ \E en \in {0, 1}, valid \in {0, 1}, bit \in {0, 1} :
          dut' = [DeviceEdge(dut) EXCEPT !.reset_n_i = 1, !.enable_i = en,
                                         !.pdm_valid_i = valid, !.pdm_data_i = bit,
                                         !.pcm_ready_i = 1]
    /\ hist' = HistEdge(hist, dut, 0)
    /\ UNCHANGED <<test, tb, timer, toEdge>>

NextDevice == DeviceStep

DeviceSpec == InitDevice /\ [][NextDevice]_vars

----------------------------------------------------------------------------
(* Properties                                                              *)

C3_AlternatingNearZero ==
    test = "test_alternating_pattern" /\ hist.was_reset =>
        /\ dut.pcm_valid_o = 1 =>
              hist.accepted = DECIMATION_RATIO /\ Abs(dut.pcm_data_o) <= Pow2(DATA_WIDTH - 3)
        /\ tb.pc = "done" =>
              tb.collected = 1 /\ Abs(tb.pcm_value) <= Pow2(DATA_WIDTH - 3)
              /\ tb.status = "passed"

\* C3 witness: the alternating test has read the word of its one window.
C3_Witness ==
    /\ test = "test_alternating_pattern"
    /\ tb.pc = "done" /\ tb.collected = 1
    /\ hist.windows = 1 /\ hist.accepted = DECIMATION_RATIO
    /\ tb.status = "passed"

C5_CollectsEveryWindow ==
    /\ test = "test_continuous_operation" /\ tb.pc = "done" =>
          tb.collected = NUM_CONTINUOUS_CYCLES
    /\ test = "vyges_test_performance_throughput" /\ tb.pc = "done" =>
          tb.collected = PDM_PCM_CONVERTER_NUM_PERFORMANCE_SAMPLES

\* C5 witness: the throughput test ends after the device has produced all
\* its windows, with a single word counted.
C5_Witness ==
    /\ test = "vyges_test_performance_throughput"
    /\ tb.pc = "done"
    /\ hist.windows = PDM_PCM_CONVERTER_NUM_PERFORMANCE_SAMPLES
    /\ tb.collected = 1
    /\ tb.fail_count = 1

\* C6: the overflow flag is 0 as long as no more windows than FIFO_DEPTH have
\* been completed since reset; it is 0 throughout test_backpressure (3 windows
\* with pcm_ready_i low) and throughout the stress test.
C6_NoOverflowWithinDepth ==
    hist.was_reset =>
        /\ dut.overflow_o = 1 => hist.windows > FIFO_DEPTH
        /\ test = "test_backpressure" => dut.overflow_o = 0 /\ tb.failed # "overflow"
        /\ test = "vyges_test_stress_conditions" => dut.overflow_o = 0

\* C6 witness: with pcm_ready_i low the buffer is full of FIFO_DEPTH words and
\* the flag is still 0.
C6_Witness ==
    /\ test = "test_overflow_condition"
    /\ dut.pcm_ready_i = 0
    /\ hist.windows = FIFO_DEPTH /\ Len(dut.fifo) = FIFO_DEPTH
    /\ dut.overflow_o = 0

\* C7: with pcm_ready_i low, the overflow flag is 1 from the window after the
\* FIFO_DEPTH-th on, and test_overflow_condition, which sends FIFO_DEPTH + 2
\* windows, reads it as 1 after its last window.
C7_OverflowAfterDepthPlusTwo ==
    test = "test_overflow_condition" /\ hist.was_reset =>
        /\ hist.windows > FIFO_DEPTH => dut.overflow_o = 1
        /\ tb.pc = "done" =>
              hist.windows = FIFO_DEPTH + 2 /\ tb.status = "passed"

\* C7 witness: the overflow test is over, the flag is 1 and the buffer still
\* holds its FIFO_DEPTH words.
C7_Witness ==
    /\ test = "test_overflow_condition"
    /\ tb.pc = "done" /\ tb.status = "passed"
    /\ hist.windows = 18
    /\ dut.overflow_o = 1 /\ Len(dut.fifo) = FIFO_DEPTH

\* C8: if at a rising edge the module is out of reset and enabled, pcm_ready_i
\* is 1 and pcm_valid_o is 0, then underflow_o is 1 after that edge; a word is
\* presented as valid only if it is the pending head of the buffer; and
\* test_underflow_condition passes.
C8_UnderflowOnEmptyRead ==
    /\ hist.sampled.reset_n = 1 /\ hist.sampled.enable = 1
       /\ hist.sampled.pcm_ready = 1 /\ hist.sampled.pcm_valid = 0
          => dut.underflow_o = 1
    /\ hist.was_reset /\ dut.pcm_valid_o = 1 =>
          dut.fifo # <<>> /\ dut.pcm_data_o = Head(dut.fifo)
    /\ test = "test_underflow_condition" /\ tb.pc = "done" => tb.status = "passed"

\* C8 witness: the underflow test has read the flag as 1 with no word valid.
C8_Witness ==
    /\ test = "test_underflow_condition"
    /\ tb.pc = "done" /\ tb.status = "passed"
    /\ hist.sampled.enable = 1 /\ hist.sampled.pcm_ready = 1
    /\ hist.sampled.pcm_valid = 0
    /\ dut.underflow_o = 1 /\ dut.pcm_valid_o = 0

\* C9: in test_reset_sequence, once reset is deasserted with enable low,
\* busy_o, overflow_o, underflow_o and pdm_ready_o are 0, whatever the
\* registers held before the reset, and the test passes.
C9_IdleAfterReset ==
    test = "test_reset_sequence" /\ tb.pc \in {"reset_settle", "done"} =>
        /\ dut.busy_o = 0 /\ dut.overflow_o = 0 /\ dut.underflow_o = 0
        /\ dut.pdm_ready_o = 0
        /\ tb.pc = "done" => tb.status = "passed"

\* C9 witness: the reset test has passed with reset high and enable low.
C9_Witness ==
    /\ test = "test_reset_sequence"
    /\ tb.pc = "done" /\ tb.status = "passed"
    /\ dut.reset_n_i = 1 /\ dut.enable_i = 0
    /\ dut.pcm_ready_i = 1 /\ dut.pdm_valid_i = 0
    /\ dut.pdm_ready_o = 0

C11_ResumesAfterDisable ==
    /\ hist.sampled.reset_n = 1 /\ hist.sampled.enable = 1 => dut.pdm_ready_o = 1
    /\ hist.was_reset =>
          /\ dut.bit_count = hist.accepted % DECIMATION_RATIO
          /\ hist.windows = hist.accepted \div DECIMATION_RATIO
          /\ dut.ones_count <= dut.bit_count

\* C11 witness: enable was sampled low inside the first window while a bit
\* was offered, and the window has since been completed and its word is
\* presented.
C11_Witness ==
    /\ hist.interrupted
    /\ hist.windows = 1 /\ hist.accepted = DECIMATION_RATIO
    /\ dut.pdm_ready_o = 1 /\ dut.pcm_valid_o = 1

\* C12: a test that has run to completion and passed has no check that
\* evaluated false behind it: no logged assertion failed and no logged test
\* result was a failure.
C12_NoPassAfterFailedCheck ==
    tb.pc = "done" /\ tb.status = "passed" =>
        tb.failed_assertions = {} /\ tb.fail_count = 0

\* C12 witness: a Vyges test has ended as passed although one of its logged
\* assertions evaluated false.
C12_Witness ==
    /\ test \in VygesTests
    /\ tb.pc = "done" /\ tb.status = "passed"
    /\ tb.failed_assertions # {}

\* C13: whatever the device does, no wait of a test lasts longer than the
\* cycle-count timeout of the harness: neither a counted wait nor a
\* `while pdm_ready_o == 0` loop goes through more than 1000 edges.
C13_EveryWaitBounded ==
    /\ tb.timeout <= PCM_TIMEOUT
    /\ hist.ready_waits <= PCM_TIMEOUT

\* C13 witness: a core test, run against a device that never asserts
\* pdm_ready_o, is still inside its ready loop after more edges than any
\* timeout of the harness counts.
C13_Witness ==
    /\ test \in CoreTests /\ dut.kind = "never_ready"
    /\ tb.pc = "wait_ready" /\ tb.status = "running"
    /\ hist.ready_waits > PDM_PCM_CONVERTER_MAX_WAIT_CYCLES

\* The number of stimulus bits in the lists a test has sent when it ends, for
\* the tests that send whole windows and wait for their words.
SentBits(t) ==
    IF t = "vyges_test_basic_functionality" THEN NUM_BASIC_SCENARIOS * DataLen(t)
    ELSE IF t = "vyges_test_performance_throughput" THEN DataLen(t)
    ELSE DECIMATION_RATIO

\* C14: every stimulus bit is accepted on exactly one edge, none skipped and
\* none accepted twice: when a test that sends whole windows has ended, the
\* device has accepted as many bits as the lists it was sent hold.
C14_EachBitAcceptedOnce ==
    /\ tb.pc = "done"
    /\ \/ test \in {"vyges_test_basic_functionality",
                    "vyges_test_performance_throughput"}
       \/ WaitsPerWindow(test) /\ test # "test_continuous_operation"
    => hist.accepted = SentBits(test)

\* C14 witness: vyges_test_basic_functionality has sent its five windows and
\* compared five words, and the device has accepted one bit more than the
\* lists hold.
C14_Witness ==
    /\ test = "vyges_test_basic_functionality"
    /\ tb.pc = "done" /\ tb.test_count = NUM_BASIC_SCENARIOS
    /\ hist.windows = NUM_BASIC_SCENARIOS
    /\ hist.accepted = SentBits(test) + 1

----------------------------------------------------------------------------
(* The two flavours' checks of one word against one window.                *)

\* expected_pcm of test_all_zeros_pattern and test_all_ones_pattern, for a
\* window of DECIMATION_RATIO bits with `ones` ones.
CoreExpectedPcm(ones) ==
    IF ones = 0 THEN -Pow2(DATA_WIDTH - 1) ELSE Pow2(DATA_WIDTH - 1) - 1

\* A window (by its number of ones) and a word on pcm_data_o.
InitExpected ==
    /\ test = "vyges_calculate_expected_pcm"
    /\ \E ones \in 0..DECIMATION_RATIO, n \in 0..DECIMATION_RATIO :
          /\ tb = [pc |-> "call", ones |-> ones, expected_pcm |-> 0,
                   pcm_match |-> FALSE, core_pass |-> FALSE]
          /\ dut = [CleanRegs EXCEPT !.pcm_valid_o = 1, !.pcm_data_o = PcmWord(n)]
    /\ timer = 0
    /\ toEdge = 0
    /\ hist = InitHist

\* The Vyges verification of the word (expected value, tolerance) and the
\* core assert on the same word.
CompareWord ==
    /\ test = "vyges_calculate_expected_pcm"
    /\ tb.pc = "call"
    /\ LET expected == vyges_calculate_expected_pcm(tb.ones, DECIMATION_RATIO)
       IN  tb' = [tb EXCEPT
                    !.pc = "done",
                    !.expected_pcm = expected,
                    !.pcm_match = PcmMatch(integer(dut.pcm_data_o), expected),
                    !.core_pass = integer(dut.pcm_data_o) = CoreExpectedPcm(tb.ones)]
    /\ UNCHANGED <<test, dut, timer, toEdge, hist>>

NextExpected == CompareWord

ExpectedSpec == InitExpected /\ [][NextExpected]_vars

\* C16: for the all-zero and the all-one window the value of
\* vyges_calculate_expected_pcm is within 2^(DATA_WIDTH-8) of the value the
\* core test requires, and a word that passes the core assert passes the
\* Vyges comparison.
C16_FlavoursAgree ==
    tb.pc = "done" /\ tb.ones \in {0, DECIMATION_RATIO} =>
        /\ Abs(tb.expected_pcm - CoreExpectedPcm(tb.ones)) <= Pow2(DATA_WIDTH - 8)
        /\ tb.core_pass => tb.pcm_match

\* C16 witness: the word of an all-one window passes the core assert and
\* fails the Vyges comparison.
C16_Witness ==
    /\ tb.pc = "done" /\ tb.ones = DECIMATION_RATIO
    /\ dut.pcm_data_o = PcmWord(DECIMATION_RATIO)
    /\ tb.core_pass /\ ~tb.pcm_match

----------------------------------------------------------------------------
(* cocotb_config.validate_configuration over configurations.               *)

\* ValidationConfig.PDM_PCM_CONVERTER_FUNCTIONAL_VALIDATION
FUNCTIONAL_VALIDATION ==
    [data_width_range |-> <<8, 32>>, decimation_ratio_range |-> <<2, 48>>,
     fifo_depth_range |-> <<8, 64>>, cic_stages_range |-> <<1, 8>>,
     fir_taps_range |-> <<16, 128>>]

\* lo <= v <= hi for a range (lo, hi).
InRange(v, range) == range[1] <= v /\ v <= range[2]

\* The values just outside and at the ends of a range.
AroundRange(range) == {range[1] - 1, range[1], range[2], range[2] + 1}

\* The configurations validate_configuration is applied to: the attributes
\* of TestConfig it may find, whether the RTL files exist, the pass-band
\* ripple in tenths of a dB and the stop-band attenuation in dB.
Configurations ==
    [PDM_PCM_CONVERTER_DATA_WIDTH : AroundRange(FUNCTIONAL_VALIDATION.data_width_range),
     PDM_PCM_CONVERTER_DECIMATION_RATIO :
         AroundRange(FUNCTIONAL_VALIDATION.decimation_ratio_range),
     PDM_PCM_CONVERTER_FIFO_DEPTH : AroundRange(FUNCTIONAL_VALIDATION.fifo_depth_range),
     PDM_PCM_CONVERTER_CIC_STAGES : AroundRange(FUNCTIONAL_VALIDATION.cic_stages_range),
     PDM_PCM_CONVERTER_FIR_TAPS : AroundRange(FUNCTIONAL_VALIDATION.fir_taps_range),
     PASSBAND_RIPPLE_TENTHS_DB : {1, 11},
     PDM_PCM_CONVERTER_STOPBAND_ATTENUATION_DB : {59, 98},
     rtl_files_exist : BOOLEAN]

\* validate_configuration: False at the first check that fails, else True.
validate_configuration(config) ==
    /\ config.rtl_files_exist
    /\ 8 <= config.PDM_PCM_CONVERTER_DATA_WIDTH
    /\ config.PDM_PCM_CONVERTER_DATA_WIDTH <= 32
    /\ 2 <= config.PDM_PCM_CONVERTER_DECIMATION_RATIO
    /\ config.PDM_PCM_CONVERTER_DECIMATION_RATIO <= 48
    /\ ~(config.PASSBAND_RIPPLE_TENTHS_DB > 10)
    /\ ~(config.PDM_PCM_CONVERTER_STOPBAND_ATTENUATION_DB < 60)

InitValidate ==
    /\ test = "validate_configuration"
    /\ \E config \in Configurations :
          tb = [pc |-> "call", config |-> config, result |-> FALSE]
    /\ dut = CleanRegs
    /\ timer = 0
    /\ toEdge = 0
    /\ hist = InitHist

\* validate_configuration() is called and returns.
Validate ==
    /\ test = "validate_configuration"
    /\ tb.pc = "call"
    /\ tb' = [tb EXCEPT !.pc = "done", !.result = validate_configuration(tb.config)]
    /\ UNCHANGED <<test, dut, timer, toEdge, hist>>

NextValidate == Validate

ValidateSpec == InitValidate /\ [][NextValidate]_vars

\* C17: validate_configuration returns True only for a configuration whose
\* data width, decimation ratio, FIFO depth, CIC stage count and FIR tap count
\* are all within the ranges of FUNCTIONAL_VALIDATION.
C17_TrueOnlyInRanges ==
    tb.pc = "done" /\ tb.result =>
        /\ InRange(tb.config.PDM_PCM_CONVERTER_DATA_WIDTH,
                   FUNCTIONAL_VALIDATION.data_width_range)
        /\ InRange(tb.config.PDM_PCM_CONVERTER_DECIMATION_RATIO,
                   FUNCTIONAL_VALIDATION.decimation_ratio_range)
        /\ InRange(tb.config.PDM_PCM_CONVERTER_FIFO_DEPTH,
                   FUNCTIONAL_VALIDATION.fifo_depth_range)
        /\ InRange(tb.config.PDM_PCM_CONVERTER_CIC_STAGES,
                   FUNCTIONAL_VALIDATION.cic_stages_range)
        /\ InRange(tb.config.PDM_PCM_CONVERTER_FIR_TAPS,
                   FUNCTIONAL_VALIDATION.fir_taps_range)

\* C17 witness: validate_configuration has returned True for a configuration
\* whose FIFO depth is below 8.
C17_Witness ==
    /\ tb.pc = "done" /\ tb.result
    /\ tb.config.PDM_PCM_CONVERTER_FIFO_DEPTH < FUNCTIONAL_VALIDATION.fifo_depth_range[1]
    /\ InRange(tb.config.PDM_PCM_CONVERTER_DATA_WIDTH,
               FUNCTIONAL_VALIDATION.data_width_range)
    /\ InRange(tb.config.PDM_PCM_CONVERTER_DECIMATION_RATIO,
               FUNCTIONAL_VALIDATION.decimation_ratio_range)

C19_SendReturns ==
    /\ tb.pc = "vsend_ret" =>
          /\ SendLen(test, tb) = 0
          /\ dut.pdm_valid_i = 0
          /\ hist.accepted = 0
          /\ hist.now = PDM_PCM_CONVERTER_CLOCK_PERIOD_NS
                        * (PDM_PCM_CONVERTER_RESET_CYCLES + PDM_PCM_CONVERTER_STABLE_CYCLES)
    /\ test = "vyges_test_corner_cases" /\ tb.n_assert >= 1 =>
          "empty_data_handling" \notin tb.failed_assertions
    /\ tb.pc = "vpcm_wait" => dut.pdm_valid_i = 0
    /\ test = "vyges_test_basic_functionality" =>
          /\ \A k \in 0..(NUM_BASIC_SCENARIOS - 1) :
                DataTransmissionName(k) \notin tb.failed_assertions
          /\ tb.pc = "done" => dut.pdm_valid_i = 0

\* C19 witness: the empty list has been sent and the call has returned, with
\* nothing logged yet.
C19_Witness ==
    /\ test = "vyges_test_corner_cases"
    /\ tb.pc = "vsend_ret" /\ tb.sample = 1 /\ tb.n_assert = 0
    /\ dut.pdm_valid_i = 0 /\ dut.reset_n_i = 1 /\ dut.enable_i = 1

\* C20: when vyges_test_performance_throughput has logged
\* performance_throughput as true, the outputs it counted came at a rate of
\* at least 1,000,000 per second of simulated time, the threshold of the core
\* test: pcm_count / duration_ns >= 1/1000.
C20_ThroughputAtLeast1Msps ==
    /\ test = "vyges_test_performance_throughput"
    /\ tb.pc = "done" /\ tb.n_assert = 2
    /\ "performance_throughput" \notin tb.failed_assertions
    => tb.collected * 1000 >= hist.now - tb.start_time

\* C20 witness: the throughput test has ended with performance_throughput
\* logged as true, having counted one output in more than a millisecond.
C20_Witness ==
    /\ test = "vyges_test_performance_throughput"
    /\ tb.pc = "done" /\ tb.n_assert = 2
    /\ "performance_throughput" \notin tb.failed_assertions
    /\ tb.collected = 1
    /\ hist.now - tb.start_time > 1000000

\* The device signals the core tests read or drive (dut.<name>).
CoreSignalsUsed ==
    {"clock_i", "reset_n_i", "enable_i", "pdm_data_i", "pdm_valid_i",
     "pdm_ready_o", "pcm_data_o", "pcm_valid_o", "pcm_ready_i",
     "busy_o", "overflow_o", "underflow_o"}

\* The device signals a test reads or drives: the Vyges tests use the
\* handshake and data signals, and the stress test its overflow flag.
SignalsUsed(t) ==
    IF t \in CoreTests THEN CoreSignalsUsed
    ELSE {"clock_i", "reset_n_i", "enable_i", "pdm_data_i", "pdm_valid_i",
          "pdm_ready_o", "pcm_data_o", "pcm_valid_o", "pcm_ready_i"}
         \cup (IF t = "vyges_test_stress_conditions"
               THEN {StressOverflowSignal} ELSE {})

\* C21: every signal a test reads or drives is a signal of the device, under
\* the one name both flavours use, so that no test has ended on the lookup of
\* a signal the device does not have.
C21_OnlyContractSignals ==
    tb.pc = "done" =>
        /\ SignalsUsed(test) \subseteq DeviceSignals
        /\ tb.status # "error"

\* C21 witness: the stress test has sent a window, got its word, and ended on
\* the lookup of the overflow flag under a name the device does not have.
C21_Witness ==
    /\ test = "vyges_test_stress_conditions"
    /\ tb.pc = "done" /\ tb.status = "error"
    /\ tb.failed = StressOverflowSignal /\ tb.failed \notin DeviceSignals
    /\ "overflow_o" \in SignalsUsed("test_backpressure")
    /\ hist.windows >= 1

----------------------------------------------------------------------------
(* C22: the reset sequence of the Vyges tester.                            *)

\* C22: when vyges_reset_sequence asserts enable_i, reset_n_i has been
\* sampled low on at least PDM_PCM_CONVERTER_RESET_CYCLES rising edges of the
\* clock the test drives, and then high, with enable_i low, on at least
\* PDM_PCM_CONVERTER_STABLE_CYCLES rising edges.
C22_ResetSequenceSpansEdges ==
    test \in VygesTests /\ tb.pc = "vrst_stable" /\ timer < toEdge
        => /\ hist.low_edges >= PDM_PCM_CONVERTER_RESET_CYCLES
           /\ hist.stable_edges >= PDM_PCM_CONVERTER_STABLE_CYCLES

\* A repeated reset sequence of vyges_test_reset_functionality is over and
\* no rising edge has fallen into it: the device never sampled this reset.
C22_Witness ==
    /\ test = "vyges_test_reset_functionality"
    /\ tb.sample >= 1
    /\ tb.pc = "vrst_stable"
    /\ timer < toEdge
    /\ hist.low_edges = 0
    /\ hist.stable_edges = 0
    /\ ClockPeriod(test) >
           PDM_PCM_CONVERTER_CLOCK_PERIOD_NS
               * (PDM_PCM_CONVERTER_RESET_CYCLES + PDM_PCM_CONVERTER_STABLE_CYCLES)

----------------------------------------------------------------------------
(* C23: the bounded waits, followed against a signal that rises after a    *)
(* chosen number of edges.                                                 *)

\* The bounded waits of the harness: the two of the Vyges tester, and the
\* loop of the core tests that precedes `assert timeout < 1000`.
WaitFunctions == {"vyges_wait_for_ready", "vyges_wait_for_pcm_output", "core_pcm_wait"}

\* The largest explicit timeout_cycles argument that is followed.
MaxTimeoutArg == 4

\* The values of timeout_cycles: the default of the Vyges tester or an
\* explicit argument, and the literal of the core loop.
WaitTimeouts(fn) ==
    IF fn = "core_pcm_wait" THEN {PCM_TIMEOUT}
    ELSE (1..MaxTimeoutArg) \cup {PDM_PCM_CONVERTER_MAX_WAIT_CYCLES}

\* The number of awaited edges after which the harness reads the signal
\* high: early, or around the last permitted edge.
RiseEdges(limit) ==
    (0..(MaxTimeoutArg + 1)) \cup {k \in {limit - 1, limit, limit + 1} : k >= 0}

\* The signal a wait reads.
AwaitedSignal(d, fn) ==
    IF fn = "vyges_wait_for_ready" THEN d.pdm_ready_o ELSE d.pcm_valid_o

\* The signal after `edges` awaited edges.
DriveAwaited(d, fn, edges, rise) ==
    LET v == IF edges >= rise THEN 1 ELSE 0
    IN  IF fn = "vyges_wait_for_ready" THEN [d EXCEPT !.pdm_ready_o = v]
        ELSE [d EXCEPT !.pcm_valid_o = v]

\* The condition of the while loop.
WaitGoesOn(sig, cycles, timeout_cycles) == sig = 0 /\ cycles < timeout_cycles

\* What follows the loop: `if cycles >= timeout_cycles: return False`, and
\* `assert timeout < 1000` in the core tests.
WaitResult(cycles, timeout_cycles) == ~(cycles >= timeout_cycles)

InitWait ==
    /\ test = "bounded_wait"
    /\ \E fn \in WaitFunctions :
          \E limit \in WaitTimeouts(fn) :
             \E rise \in RiseEdges(limit) :
                /\ tb = [pc |-> "wait", fn |-> fn, timeout_cycles |-> limit,
                         rise |-> rise, cycles |-> 0, result |-> FALSE]
                /\ dut = DriveAwaited(CleanRegs, fn, 0, rise)
    /\ timer = 0
    /\ toEdge = 0
    /\ hist = InitHist

\* One turn of the loop: `await RisingEdge`, then the count.
WaitEdge ==
    /\ test = "bounded_wait"
    /\ tb.pc = "wait"
    /\ WaitGoesOn(AwaitedSignal(dut, tb.fn), tb.cycles, tb.timeout_cycles)
    /\ tb' = [tb EXCEPT !.cycles = @ + 1]
    /\ dut' = DriveAwaited(dut, tb.fn, tb.cycles + 1, tb.rise)
    /\ UNCHANGED <<test, timer, toEdge, hist>>

\* The loop is left and the function returns (the assert is evaluated).
WaitReturn ==
    /\ test = "bounded_wait"
    /\ tb.pc = "wait"
    /\ ~WaitGoesOn(AwaitedSignal(dut, tb.fn), tb.cycles, tb.timeout_cycles)
    /\ tb' = [tb EXCEPT !.pc = "returned",
                        !.result = WaitResult(tb.cycles, tb.timeout_cycles)]
    /\ UNCHANGED <<test, dut, timer, toEdge, hist>>

NextWait == WaitEdge \/ WaitReturn

WaitSpec == InitWait /\ [][NextWait]_vars

\* C23: a bounded wait of the Vyges tester returns True exactly when the
\* awaited signal is high as it returns, also when the signal rises on the
\* last permitted edge; the assert after the core loop fails only when
\* pcm_valid_o is still low.
C23_WaitReportsSignal ==
    test = "bounded_wait" /\ tb.pc = "returned"
        => IF tb.fn = "core_pcm_wait"
           THEN ~tb.result => AwaitedSignal(dut, tb.fn) = 0
           ELSE tb.result <=> AwaitedSignal(dut, tb.fn) = 1

\* The signal rose on edge number timeout_cycles and the wait reports a
\* timeout.
C23_Witness ==
    /\ test = "bounded_wait"
    /\ tb.pc = "returned"
    /\ tb.rise = tb.timeout_cycles
    /\ tb.cycles = tb.timeout_cycles
    /\ AwaitedSignal(dut, tb.fn) = 1
    /\ ~tb.result

----------------------------------------------------------------------------
(* C24: pdm_valid_i after vyges_send_pdm_data.                             *)

\* C24: whenever vyges_send_pdm_data has returned, with True or with False,
\* it has left pdm_valid_i deasserted.
C24_ValidLowAfterSend ==
    test \in VygesTests /\ tb.valid_at_return # -1 => tb.valid_at_return = 0

\* vyges_send_pdm_data has returned False to the performance test, which has
\* ended, and pdm_valid_i is still asserted.
C24_Witness ==
    /\ test = "vyges_test_performance_throughput"
    /\ tb.pc = "done"
    /\ "performance_data_transmission" \in tb.failed_assertions
    /\ tb.valid_at_return = 1
    /\ dut.pdm_valid_i = 1

----------------------------------------------------------------------------
(* C25: the counters of the Vyges tester under any sequence of logging     *)
(* calls.                                                                  *)

\* The number of logging calls a tester is followed for.
MaxLogCalls == 5

\* The assertion names the calls draw from.
LogNames == {"reset_deasserted", "no_overflow"}

\* VygesPdmPcmDecimatorTester.__init__: the counters, the assertion list, and
\* what has been asked of the tester so far (results, failed_results).
InitLog ==
    /\ test = "vyges_logging"
    /\ tb = [pc |-> "logging", test_count |-> 0, pass_count |-> 0, fail_count |-> 0,
             n_assert |-> 0, failed_assertions |-> {},
             results |-> 0, failed_results |-> 0, printed |-> <<>>]
    /\ dut = CleanRegs
    /\ timer = 0
    /\ toEdge = 0
    /\ hist = InitHist

\* A call of vyges_log_test_result.
LogTestResult ==
    /\ test = "vyges_logging"
    /\ tb.pc = "logging"
    /\ tb.results + tb.n_assert < MaxLogCalls
    /\ \E passed \in BOOLEAN :
          tb' = [vyges_log_test_result(tb, passed) EXCEPT
                   !.results = @ + 1,
                   !.failed_results = IF passed THEN @ ELSE @ + 1]
    /\ UNCHANGED <<test, dut, timer, toEdge, hist>>

\* A call of log_vyges_assertion.
LogAssertion ==
    /\ test = "vyges_logging"
    /\ tb.pc = "logging"
    /\ tb.results + tb.n_assert < MaxLogCalls
    /\ \E name \in LogNames, condition \in BOOLEAN :
          tb' = log_vyges_assertion(tb, name, condition)
    /\ UNCHANGED <<test, dut, timer, toEdge, hist>>

\* vyges_print_test_summary: Total Tests, Passed, Failed.
PrintSummary ==
    /\ test = "vyges_logging"
    /\ tb.pc = "logging"
    /\ tb' = [tb EXCEPT !.pc = "summary",
                        !.printed = <<tb.test_count, tb.pass_count, tb.fail_count>>]
    /\ UNCHANGED <<test, dut, timer, toEdge, hist>>

NextLog == LogTestResult \/ LogAssertion \/ PrintSummary

LogSpec == InitLog /\ [][NextLog]_vars

\* C25: after any sequence of vyges_log_test_result and log_vyges_assertion
\* calls, test_count = pass_count + fail_count = the number of
\* vyges_log_test_result calls; log_vyges_assertion changes no counter, so
\* the summary counts as failed only failed vyges_log_test_result calls,
\* never a failed logged assertion.
C25_CountersCountResults ==
    test = "vyges_logging"
        => /\ tb.test_count = tb.pass_count + tb.fail_count
           /\ tb.test_count = tb.results
           /\ tb.fail_count = tb.failed_results
           /\ tb.pc = "summary"
                  => tb.printed = <<tb.results, tb.results - tb.failed_results,
                                    tb.failed_results>>

\* A summary is printed after results that passed and failed and after a
\* logged assertion that failed.
C25_Witness ==
    /\ test = "vyges_logging"
    /\ tb.pc = "summary"
    /\ tb.failed_assertions # {}
    /\ tb.n_assert >= 2
    /\ tb.pass_count >= 1
    /\ tb.fail_count >= 1
    /\ tb.printed[3] = tb.failed_results

----------------------------------------------------------------------------
(* C26: the summary of generate_vyges_test_report.                         *)

\* The longest list of result records a report is generated from.
MaxResults == 4

\* Result records: with 'passed' True, with 'passed' False, and without the
\* key.
ResultRecords ==
    {[test_name |-> "t", passed |-> TRUE], [test_name |-> "t", passed |-> FALSE],
     [test_name |-> "t"]}

\* The lists of at most n result records.
RECURSIVE ResultLists(_)
ResultLists(n) ==
    IF n = 0 THEN {<<>>}
    ELSE LET shorter == ResultLists(n - 1)
         IN  shorter \cup {Append(l, rec) : l \in {x \in shorter : Len(x) = n - 1},
                                            rec \in ResultRecords}

\* dict.get(key, default)
Get(result, key, default) == IF key \in DOMAIN result THEN result[key] ELSE default

\* sum(1 for result in test_results if cond(result))
RECURSIVE CountIf(_, _, _)
CountIf(test_results, default, wanted) ==
    IF test_results = <<>> THEN 0
    ELSE (IF Get(Head(test_results), "passed", default) = wanted THEN 1 ELSE 0)
         + CountIf(Tail(test_results), default, wanted)

\* report['summary'] of generate_vyges_test_report. success_rate, the float
\* (passed_tests / total_tests) * 100, is kept as the fraction num / den.
generate_vyges_test_report(test_results) ==
    LET total  == Len(test_results)
        passed == CountIf(test_results, FALSE, TRUE)
        failed == CountIf(test_results, TRUE, FALSE)
    IN  [total_tests  |-> total,
         passed_tests |-> passed,
         failed_tests |-> failed,
         success_rate |-> IF total > 0 THEN [num |-> passed * 100, den |-> total]
                          ELSE [num |-> 0, den |-> 1]]

InitReport ==
    /\ test = "generate_vyges_test_report"
    /\ \E test_results \in ResultLists(MaxResults) :
          tb = [pc |-> "call", test_results |-> test_results,
                summary |-> [total_tests |-> 0, passed_tests |-> 0, failed_tests |-> 0,
                             success_rate |-> [num |-> 0, den |-> 1]]]
    /\ dut = CleanRegs
    /\ timer = 0
    /\ toEdge = 0
    /\ hist = InitHist

\* generate_vyges_test_report() is called and returns.
GenerateReport ==
    /\ test = "generate_vyges_test_report"
    /\ tb.pc = "call"
    /\ tb' = [tb EXCEPT !.pc = "done",
                        !.summary = generate_vyges_test_report(tb.test_results)]
    /\ UNCHANGED <<test, dut, timer, toEdge, hist>>

NextReport == GenerateReport

ReportSpec == InitReport /\ [][NextReport]_vars

\* C26: for every list of result records, also with records that have no
\* 'passed' key, the summary has passed_tests + failed_tests = total_tests
\* and success_rate = 100 * passed_tests / total_tests (0 for the empty
\* list).
C26_SummaryAddsUp ==
    test = "generate_vyges_test_report" /\ tb.pc = "done"
        => LET s == tb.summary
           IN  /\ s.total_tests = Len(tb.test_results)
               /\ s.passed_tests + s.failed_tests = s.total_tests
               /\ s.success_rate.num * s.total_tests
                      = 100 * s.passed_tests * s.success_rate.den
               /\ s.total_tests = 0 => s.success_rate.num = 0

\* A report over a list with a record that has no 'passed' key: the record
\* is counted neither as passed nor as failed.
C26_Witness ==
    /\ test = "generate_vyges_test_report"
    /\ tb.pc = "done"
    /\ \E i \in 1..Len(tb.test_results) : "passed" \notin DOMAIN tb.test_results[i]
    /\ tb.summary.passed_tests + tb.summary.failed_tests < tb.summary.total_tests

----------------------------------------------------------------------------
(* C27, C28: the basic scenarios, for every decimation ratio the           *)
(* configuration may have.                                                 *)

\* The decimation ratios validate_configuration lets pass.
ScenarioRatios ==
    FUNCTIONAL_VALIDATION.decimation_ratio_range[1]
        .. FUNCTIONAL_VALIDATION.decimation_ratio_range[2]

\* TestScenarios.get_basic_scenarios with PDM_PCM_CONVERTER_DECIMATION_RATIO
\* = ratio. expected_duty_cycle is kept as the fraction num / den.
get_basic_scenarios(ratio) ==
    LET \* element j of a list is the element of index i = j - 1
        zero    == [j \in 1..ratio |-> 0]
        one     == [j \in 1..ratio |-> 1]
        alt     == [j \in 1..ratio |-> (j - 1) % 2]
        quarter == [j \in 1..ratio |-> IF j - 1 < ratio \div 4 THEN 1 ELSE 0]
        three   == [j \in 1..ratio |-> IF j - 1 < (3 * ratio) \div 4 THEN 1 ELSE 0]
    IN  << [name |-> "pdm_pcm_converter_all_zeros",
            pdm_data |-> zero,
            expected_duty_cycle |-> [num |-> 0, den |-> 1],
            expected_pcm_range |-> <<-32768, -32000>>],
           [name |-> "pdm_pcm_converter_all_ones",
            pdm_data |-> one,
            expected_duty_cycle |-> [num |-> 1, den |-> 1],
            expected_pcm_range |-> <<32000, 32767>>],
           [name |-> "pdm_pcm_converter_alternating",
            pdm_data |-> alt,
            expected_duty_cycle |-> [num |-> 1, den |-> 2],
            expected_pcm_range |-> <<-1000, 1000>>],
           [name |-> "pdm_pcm_converter_quarter_ones",
            pdm_data |-> quarter,
            expected_duty_cycle |-> [num |-> 1, den |-> 4],
            expected_pcm_range |-> <<-16384, -12000>>],
           [name |-> "pdm_pcm_converter_three_quarter_ones",
            pdm_data |-> three,
            expected_duty_cycle |-> [num |-> 3, den |-> 4],
            expected_pcm_range |-> <<12000, 16384>>] >>

\* The sum of l[a] .. l[b], by halves.
RECURSIVE SumRange(_, _, _)
SumRange(l, a, b) ==
    IF a > b THEN 0
    ELSE IF a = b THEN l[a]
    ELSE LET mid == (a + b) \div 2
         IN  SumRange(l, a, mid) + SumRange(l, mid + 1, b)

\* sum(pdm_data)
SumList(l) == SumRange(l, 1, Len(l))

\* vyges_calculate_expected_pcm(pdm_data) for a list.
ExpectedOfList(pdm_data) == vyges_calculate_expected_pcm(SumList(pdm_data), Len(pdm_data))

InitScenario ==
    /\ test = "get_basic_scenarios"
    /\ \E ratio \in ScenarioRatios, k \in 1..NUM_BASIC_SCENARIOS :
          tb = [pc |-> "call", ratio |-> ratio, k |-> k,
                scenario |-> [name |-> "", pdm_data |-> <<>>,
                              expected_duty_cycle |-> [num |-> 0, den |-> 1],
                              expected_pcm_range |-> <<0, 0>>],
                expected_pcm |-> 0]
    /\ dut = CleanRegs
    /\ timer = 0
    /\ toEdge = 0
    /\ hist = InitHist

\* Scenario k of get_basic_scenarios() is taken, and the Vyges tester
\* computes the expected word of its pdm_data.
TakeScenario ==
    /\ test = "get_basic_scenarios"
    /\ tb.pc = "call"
    /\ LET scenario == get_basic_scenarios(tb.ratio)[tb.k]
       IN  tb' = [tb EXCEPT !.pc = "done",
                            !.scenario = scenario,
                            !.expected_pcm = ExpectedOfList(scenario.pdm_data)]
    /\ UNCHANGED <<test, dut, timer, toEdge, hist>>

NextScenario == TakeScenario

ScenarioSpec == InitScenario /\ [][NextScenario]_vars

\* C27: for every basic scenario of the configured decimation ratio, the
\* word vyges_calculate_expected_pcm computes for the scenario's pdm_data
\* lies inside the scenario's expected_pcm_range.
C27_ExpectedInsideRange ==
    test = "get_basic_scenarios" /\ tb.pc = "done" /\ tb.ratio = DECIMATION_RATIO
        => InRange(tb.expected_pcm, tb.scenario.expected_pcm_range)

\* The all-zeros scenario of the configured ratio: the expected word is
\* -2^(DATA_WIDTH-2), above the range that ends at -32000.
C27_Witness ==
    /\ test = "get_basic_scenarios"
    /\ tb.pc = "done"
    /\ tb.ratio = DECIMATION_RATIO
    /\ tb.scenario.name = "pdm_pcm_converter_all_zeros"
    /\ tb.expected_pcm = -Pow2(DATA_WIDTH - 2)
    /\ tb.expected_pcm > tb.scenario.expected_pcm_range[2]

\* C28: for every decimation ratio from 2 to 48, the pdm_data of each basic
\* scenario has exactly that many elements, each 0 or 1, and its fraction of
\* ones is the scenario's expected_duty_cycle.
C28_ScenarioDutyCycle ==
    test = "get_basic_scenarios" /\ tb.pc = "done"
        => LET data == tb.scenario.pdm_data
               duty == tb.scenario.expected_duty_cycle
           IN  /\ Len(data) = tb.ratio
               /\ \A j \in 1..Len(data) : data[j] \in {0, 1}
               /\ SumList(data) * duty.den = duty.num * Len(data)

\* Ratio 2: the quarter-ones scenario has no one at all.
C28_Witness ==
    /\ test = "get_basic_scenarios"
    /\ tb.pc = "done"
    /\ tb.ratio = 2
    /\ tb.scenario.name = "pdm_pcm_converter_quarter_ones"
    /\ Len(tb.scenario.pdm_data) = 2
    /\ SumList(tb.scenario.pdm_data) = 0

----------------------------------------------------------------------------
(* C29, C30: the two functions of a bit list, PCMChecker.check_constant_input *)
(* and vyges_calculate_expected_pcm, for every short bit list.             *)

\* The longest bit list the functions are applied to.
MaxListLen == 6

\* The non-empty bit lists of at most n bits.
RECURSIVE BitLists(_)
BitLists(n) ==
    IF n = 1 THEN {<<0>>, <<1>>}
    ELSE LET shorter == BitLists(n - 1)
         IN  shorter \cup {Append(l, b) : l \in {x \in shorter : Len(x) = n - 1},
                                          b \in {0, 1}}

\* The length of the long lists the check is applied to: long enough for
\* duty cycles within 1% of one half.
LongListLen == 200

\* Long lists with about as many ones as zeros.
LongLists ==
    {[j \in 1..LongListLen |-> IF j <= ones THEN 1 ELSE 0] :
        ones \in ((LongListLen \div 2) - 3)..((LongListLen \div 2) + 3)}

\* Values of the argument expected_duty_cycle, as fractions num / den.
DutyCycles ==
    {[num |-> 0, den |-> 1], [num |-> 1, den |-> 4], [num |-> 1, den |-> 2],
     [num |-> 3, den |-> 4], [num |-> 1, den |-> 1]}

\* Variant of check_constant_input: the duty cycle of the list is compared
\* with expected_duty_cycle, within 1%.
check_constant_input_expected(pdm_data, expected_duty_cycle) ==
    Abs(SumList(pdm_data) * expected_duty_cycle.den
            - expected_duty_cycle.num * Len(pdm_data)) * 100
        <= expected_duty_cycle.den * Len(pdm_data)

\* PCMChecker.check_constant_input: expected_pcm is
\* int((ones/len - 0.5) * 2 * max_value), the tolerance max_value / 100.
check_constant_input(pdm_data, expected_duty_cycle) ==
    LET ones_count   == SumList(pdm_data)
        expected_pcm == TruncDiv((2 * ones_count - Len(pdm_data)) * max_value,
                                 Len(pdm_data))
    IN  Abs(expected_pcm) * 100 <= max_value

\* The list with every bit complemented.
Complement(pdm_data) == [j \in 1..Len(pdm_data) |-> 1 - pdm_data[j]]

\* A bit list, the function applied to it, the argument expected_duty_cycle
\* and the word the device shows meanwhile.
InitBitList ==
    /\ test \in {"check_constant_input", "vyges_calculate_expected_pcm"}
    /\ \E pdm_data \in BitLists(MaxListLen)
                         \cup (IF test = "check_constant_input" THEN LongLists ELSE {}) :
          \E duty \in IF test = "check_constant_input" THEN DutyCycles
                      ELSE {[num |-> 0, den |-> 1]} :
             tb = [pc |-> "call", pdm_data |-> pdm_data,
                   expected_duty_cycle |-> duty, result |-> FALSE, expected_pcm |-> 0]
    /\ \E n \in {0, DECIMATION_RATIO} :
          dut = [CleanRegs EXCEPT !.pcm_valid_o = 1, !.pcm_data_o = PcmWord(n)]
    /\ timer = 0
    /\ toEdge = 0
    /\ hist = InitHist

\* check_constant_input() is called and returns.
CheckConstantInput ==
    /\ test = "check_constant_input"
    /\ tb.pc = "call"
    /\ tb' = [tb EXCEPT !.pc = "done",
                        !.result = check_constant_input(tb.pdm_data,
                                                        tb.expected_duty_cycle)]
    /\ UNCHANGED <<test, dut, timer, toEdge, hist>>

\* vyges_calculate_expected_pcm() is called and returns.
CalculateExpected ==
    /\ test = "vyges_calculate_expected_pcm"
    /\ tb.pc = "call"
    /\ tb' = [tb EXCEPT !.pc = "done", !.expected_pcm = ExpectedOfList(tb.pdm_data)]
    /\ UNCHANGED <<test, dut, timer, toEdge, hist>>

NextBitList == CheckConstantInput \/ CalculateExpected

BitListSpec == InitBitList /\ [][NextBitList]_vars

\* C29: the result of check_constant_input(pdm_data, expected_duty_cycle)
\* is the same for every expected_duty_cycle and every device output: it is
\* True exactly when |trunc((ones/len - 0.5) * 2 * max_value)| is at most
\* max_value / 100.
C29_CheckIgnoresExpectation ==
    test = "check_constant_input" /\ tb.pc = "done"
        => LET ones == SumList(tb.pdm_data)
               len  == Len(tb.pdm_data)
               word == TruncDiv((2 * ones - len) * (Pow2(DATA_WIDTH - 1) - 1), len)
           IN  /\ tb.result <=> 100 * Abs(word) <= Pow2(DATA_WIDTH - 1) - 1
               /\ \A duty \in DutyCycles :
                     check_constant_input(tb.pdm_data, duty) = tb.result

\* The check has passed for a list whose duty cycle is one half, called with
\* an expected duty cycle of 1 while the device shows its most negative word.
C29_Witness ==
    /\ test = "check_constant_input"
    /\ tb.pc = "done"
    /\ tb.result
    /\ 2 * SumList(tb.pdm_data) = Len(tb.pdm_data)
    /\ tb.expected_duty_cycle = [num |-> 1, den |-> 1]
    /\ dut.pcm_data_o = PcmWord(0)

\* C30: for every non-empty bit list, vyges_calculate_expected_pcm depends
\* only on the number of ones and the length (any other list with as many
\* ones and bits gives the same word), the list with every bit complemented
\* gives the negated word, and the word lies in
\* [-2^(DATA_WIDTH-2), 2^(DATA_WIDTH-2)].
C30_ExpectedPcmSymmetric ==
    test = "vyges_calculate_expected_pcm" /\ tb.pc = "done"
        => /\ \A other \in BitLists(MaxListLen) :
                 Len(other) = Len(tb.pdm_data) /\ SumList(other) = SumList(tb.pdm_data)
                     => ExpectedOfList(other) = tb.expected_pcm
           /\ ExpectedOfList(Complement(tb.pdm_data)) = -tb.expected_pcm
           /\ -Pow2(DATA_WIDTH - 2) <= tb.expected_pcm
           /\ tb.expected_pcm <= Pow2(DATA_WIDTH - 2)

\* The word of a list of three bits with one one: -16384 / 3, truncated
\* towards zero.
C30_Witness ==
    /\ test = "vyges_calculate_expected_pcm"
    /\ tb.pc = "done"
    /\ tb.pdm_data = <<0, 1, 0>>
    /\ tb.expected_pcm = -5461
    /\ ExpectedOfList(Complement(tb.pdm_data)) = 5461

====
